---- MODULE Spec2Model ----
(***************************************************************************)
(* Model of search/api.py: perform_search and course_discovery_search.     *)
(*                                                                         *)
(* Python values are modelled as follows.                                  *)
(*   - A dict is a function whose domain is its set of keys.               *)
(*   - A dict value is either a DateRange record [lower, upper] or a       *)
(*     scalar record [value |-> s]; True and False are the scalars "True"  *)
(*     and "False".                                                        *)
(*   - None is the string "None" (DateRange bounds, result payloads).      *)
(*   - A str is a sequence of characters; the characters of the estatus    *)
(*     values are the chunks of StatusChars, whitespace included, so that  *)
(*     == and split() are computed on the characters.                      *)
(*   - A search hit is a record [id, data]: id stands for the engine's     *)
(*     metadata of the hit (its rank), data is the payload.                *)
(***************************************************************************)
EXTENDS Integers, Sequences, FiniteSets, TLC

VARIABLES
    pc,          \* "call": inputs drawn, call not made; "done": call finished
    op,          \* which function is called
    settings,    \* django settings read by the call
    provider,    \* what SearchFilterGenerator.generate_field_filters returns
    args,        \* the caller's arguments
    engine,      \* what the engine and the result processor will answer
    clock,       \* successive readings of datetime.utcnow()
    calls,       \* collaborators invoked by the call, in order
    sent,        \* the dictionaries passed to the engine
    outcome      \* "pending", "returned" or "NoSearchEngineError", and the result

vars == <<pc, op, settings, provider, args, engine, clock, calls, sent, outcome>>

inputs == <<op, settings, provider, args, engine, clock>>

----------------------------------------------------------------------------
(* Bounds *)

MaxStatusLen == 3
MaxHits == 3

----------------------------------------------------------------------------
(* Python values *)

None == "None"

DateRange(lower, upper) == [lower |-> lower, upper |-> upper]

Scalar(s) == [value |-> s]

True == Scalar("True")

False == Scalar("False")

EmptyDict == [k \in {} |-> True]

\* dict.update(other) on a copy: other's value wins on every key of other
Update(d, other) ==
    [k \in (DOMAIN d) \cup (DOMAIN other) |->
        IF k \in DOMAIN other THEN other[k] ELSE d[k]]

\* d[key] = val on a copy
SetItem(d, key, val) ==
    [k \in (DOMAIN d) \cup {key} |-> IF k = key THEN val ELSE d[k]]

\* the dict left by d.pop(key)
Pop(d, key) == [k \in (DOMAIN d) \ {key} |-> d[k]]

\* characters of the strings the model draws estatus from
Whitespace == {" "}

StatusChars == {"ongoing", "upcoming", "finished", "invitation_only", "x"} \cup Whitespace

Str(word) == <<word>>

\* str.split() without arguments: the maximal runs of non-whitespace
\* characters, in order; empty strings are not produced.
RECURSIVE SplitFrom(_, _, _)
SplitFrom(s, i, token) ==
    IF i > Len(s)
    THEN IF token = <<>> THEN <<>> ELSE <<token>>
    ELSE IF s[i] \in Whitespace
         THEN (IF token = <<>> THEN <<>> ELSE <<token>>) \o SplitFrom(s, i + 1, <<>>)
         ELSE SplitFrom(s, i + 1, Append(token, s[i]))

Split(s) == SplitFrom(s, 1, <<>>)

\* x in list
InList(x, list) == \E i \in 1..Len(list) : list[i] = x

----------------------------------------------------------------------------
(* perform_search: post-processing of the engine's hits *)

\* the loop over results["results"]: every hit's data is replaced by what
\* SearchResultProcessor.process_result returned for it
ProcessResults(hits, processed) ==
    [i \in 1..Len(hits) |-> [hits[i] EXCEPT !.data = processed[i]]]

\* variant: counts every falsy payload, len([r for r in ... if not r["data"]])
AccessDeniedCountFalsy(results) ==
    Cardinality({i \in 1..Len(results) : results[i].data \in {None, "{}"}})

\* len([r for r in results["results"] if r["data"] is None])
AccessDeniedCount(results) ==
    Cardinality({i \in 1..Len(results) : results[i].data = None})

IsNotNone(r) == r.data # None

IsTruthy(r) == r.data \notin {None, "{}"}

\* variant: keeps on truthiness, [r for r in results["results"] if r["data"]]
KeptResultsTruthy(results) == SelectSeq(results, IsTruthy)

\* [r for r in results["results"] if r["data"] is not None]
KeptResults(results) == SelectSeq(results, IsNotNone)

\* the dictionary perform_search returns
PostProcess(hits, processed) ==
    LET results == ProcessResults(hits, processed)
    IN  [access_denied_count |-> AccessDeniedCount(results),
         results |-> KeptResults(results)]

----------------------------------------------------------------------------
(* course_discovery_search: the field dictionary *)

use_search_fields == {"org"}

\* {field: search_fields[field] for field in search_fields if field in use_search_fields}
SeedFields(search_fields) ==
    [k \in (DOMAIN search_fields) \cap use_search_fields |-> search_fields[k]]

\* variant: the seeded values are written over the caller's
MergeOverridesSeedWins(use_field_dictionary, a) ==
    IF a.given /\ DOMAIN a.field_dictionary # {}
    THEN Update(a.field_dictionary, use_field_dictionary)
    ELSE use_field_dictionary

\* if field_dictionary: use_field_dictionary.update(field_dictionary)
\* (None and the empty dict are both falsy)
MergeOverrides(use_field_dictionary, a) ==
    IF a.given /\ DOMAIN a.field_dictionary # {}
    THEN Update(use_field_dictionary, a.field_dictionary)
    ELSE use_field_dictionary

\* variant: the bounds of the two ongoing ranges are swapped
StatusDatesOngoingSwapped(fields, status_value, today) ==
    IF status_value = Str("ongoing")
    THEN SetItem(SetItem(fields, "start", DateRange(today, None)),
                 "end", DateRange(None, today))
    ELSE IF status_value = Str("upcoming")
    THEN SetItem(fields, "start", DateRange(today, None))
    ELSE IF status_value = Str("finished")
    THEN SetItem(fields, "end", DateRange(None, today))
    ELSE fields

\* variant: upcoming also closes the range with an end constraint
StatusDatesUpcomingWithEnd(fields, status_value, today) ==
    IF status_value = Str("ongoing")
    THEN SetItem(SetItem(fields, "start", DateRange(None, today)),
                 "end", DateRange(today, None))
    ELSE IF status_value = Str("upcoming")
    THEN SetItem(SetItem(fields, "start", DateRange(today, None)),
                 "end", DateRange(today, None))
    ELSE IF status_value = Str("finished")
    THEN SetItem(fields, "end", DateRange(None, today))
    ELSE fields

\* the if / elif / elif chain on status_value
StatusDates(fields, status_value, today) ==
    IF status_value = Str("ongoing")
    THEN SetItem(SetItem(fields, "start", DateRange(None, today)),
                 "end", DateRange(today, None))
    ELSE IF status_value = Str("upcoming")
    THEN SetItem(fields, "start", DateRange(today, None))
    ELSE IF status_value = Str("finished")
    THEN SetItem(fields, "end", DateRange(None, today))
    ELSE fields

\* variant: the invitation_only check is missing
InvitationOnlyMissing(fields, status_value) == fields

\* if status_value == "invitation_only" or 'invitation_only' in status_value.split()
InvitationOnly(fields, status_value) ==
    IF \/ status_value = Str("invitation_only")
       \/ InList(Str("invitation_only"), Split(status_value))
    THEN SetItem(fields, "invitation_only", True)
    ELSE fields

\* exclude_dictionary["invitation_only"] = False
ExcludeBaseline(exclude_dictionary) == SetItem(exclude_dictionary, "invitation_only", False)

\* variant: the status is read with [] and stays in the dictionary
PopStatusKept(fields) == fields

\* the dictionary after use_field_dictionary.pop("estatus")
PopStatus(fields) == Pop(fields, "estatus")

\* the block under: if "estatus" in use_field_dictionary
StatusDerivation(fields, exclude_dictionary, today) ==
    IF "estatus" \in DOMAIN fields
    THEN LET status_value == fields["estatus"].value
         IN  [fields  |-> InvitationOnly(StatusDates(PopStatus(fields), status_value, today),
                                         status_value),
              exclude |-> ExcludeBaseline(exclude_dictionary)]
    ELSE [fields |-> fields, exclude |-> exclude_dictionary]

\* variant: the setting is not consulted
EnrollmentStartAlways(fields, skip, now) ==
    SetItem(fields, "enrollment_start", DateRange(None, now))

\* if not SEARCH_SKIP_ENROLLMENT_START_DATE_FILTERING:
\*     use_field_dictionary["enrollment_start"] = DateRange(None, datetime.utcnow())
EnrollmentStart(fields, skip, now) ==
    IF ~skip
    THEN SetItem(fields, "enrollment_start", DateRange(None, now))
    ELSE fields

\* the three dictionaries course_discovery_search hands to searcher.search
DiscoveryQuery(p, a, s, c) ==
    LET use_field_dictionary == MergeOverrides(SeedFields(p.fields), a)
        derived == StatusDerivation(use_field_dictionary, p.exclude, c[1])
    IN  [field_dictionary   |-> EnrollmentStart(derived.fields,
                                   s.SEARCH_SKIP_ENROLLMENT_START_DATE_FILTERING, c[2]),
         filter_dictionary  |-> SetItem(EmptyDict, "enrollment_end", DateRange(c[3], None)),
         exclude_dictionary |-> derived.exclude]

----------------------------------------------------------------------------
(* Inputs *)

\* payloads a hit can carry and process_result can return
Payloads == {None, "{}", "{'id': 1}"}

SeqsUpTo(S, n) == UNION {[1..m -> S] : m \in 0..n}

\* the engine numbers the hits of its answer by rank
HitLists ==
    {[i \in 1..Len(d) |-> [id |-> i, data |-> d[i]]] : d \in SeqsUpTo(Payloads, MaxHits)}

EngineAnswers ==
    {[hits |-> h, processed |-> r] : h \in HitLists, r \in SeqsUpTo(Payloads, MaxHits)}

StatusValues == SeqsUpTo(StatusChars, MaxStatusLen)

OverrideKeys == {"org", "start", "end", "invitation_only", "enrollment_start"}

\* what a caller puts under a key of field_dictionary
CallerValue(k) ==
    IF k = "org" THEN Scalar("caller-org")
    ELSE IF k = "invitation_only" THEN False
    ELSE DateRange("t0", "t0")

CallerDicts ==
    LET plain == {[k \in K |-> CallerValue(k)] : K \in SUBSET OverrideKeys}
    IN  plain \cup {SetItem(d, "estatus", Scalar(v)) : d \in plain, v \in StatusValues}

DiscoveryArgs ==
    {[given |-> TRUE, field_dictionary |-> d] : d \in CallerDicts}
        \cup {[given |-> FALSE, field_dictionary |-> EmptyDict]}

NoArgs == [given |-> FALSE, field_dictionary |-> EmptyDict]

ProviderOutputs ==
    {[fields |-> f, filters |-> EmptyDict, exclude |-> e] :
        f \in {EmptyDict,
               SetItem(SetItem(EmptyDict, "org", Scalar("provider-org")),
                       "course", Scalar("course-1"))},
        e \in {EmptyDict, SetItem(EmptyDict, "invitation_only", True)}}

Settings ==
    [SEARCH_SKIP_ENROLLMENT_START_DATE_FILTERING : BOOLEAN,
     content_engine : BOOLEAN,
     info_engine : BOOLEAN]

\* utcnow() never goes back: either no tick between the three readings of a
\* call or a tick before each
Clocks == {<<"t1", "t1", "t1">>, <<"t1", "t2", "t3">>}

NotSent ==
    [called |-> FALSE, field_dictionary |-> EmptyDict,
     filter_dictionary |-> EmptyDict, exclude_dictionary |-> EmptyDict]

Pending == [status |-> "pending", result |-> [results |-> <<>>]]

Raised == [status |-> "NoSearchEngineError", result |-> [results |-> <<>>]]

----------------------------------------------------------------------------
(* The calls *)

InitOutputs ==
    /\ pc = "call"
    /\ calls = <<>>
    /\ sent = NotSent
    /\ outcome = Pending

InitSearch ==
    /\ op = "perform_search"
    /\ settings \in {s \in Settings : s.info_engine /\ ~s.SEARCH_SKIP_ENROLLMENT_START_DATE_FILTERING}
    /\ provider \in ProviderOutputs
    /\ args = NoArgs
    /\ engine \in {e \in EngineAnswers : Len(e.processed) = Len(e.hits)}
    /\ clock = <<"t1", "t1", "t1">>
    /\ InitOutputs

InitDiscovery ==
    /\ op = "course_discovery_search"
    /\ settings \in {s \in Settings : s.content_engine}
    /\ provider \in ProviderOutputs
    /\ args \in DiscoveryArgs
    /\ engine = [hits |-> <<[id |-> 1, data |-> "{'id': 1}"]>>, processed |-> <<None>>]
    /\ clock \in Clocks
    /\ InitOutputs

\* variant: the engine is queried before the missing searcher is noticed
PerformSearchRunLateCheck(s, p, e) ==
    [calls   |-> <<"generate_field_filters", "get_search_engine", "search_string">>,
     sent    |-> [called |-> TRUE,
                  field_dictionary |-> p.fields,
                  filter_dictionary |-> p.filters,
                  exclude_dictionary |-> p.exclude],
     outcome |-> IF ~s.content_engine
                 THEN Raised
                 ELSE [status |-> "returned",
                       result |-> PostProcess(e.hits, e.processed)]]

\* perform_search(search_term, user, size, from_, course_id): the collaborators
\* it invokes, what it passes to the engine and how it ends
PerformSearchRun(s, p, e) ==
    IF ~s.content_engine
    THEN [calls   |-> <<"generate_field_filters", "get_search_engine">>,
          sent    |-> NotSent,
          outcome |-> Raised]
    ELSE [calls   |-> <<"generate_field_filters", "get_search_engine", "search_string">>
                          \o [i \in 1..Len(e.hits) |-> "process_result"],
          sent    |-> [called |-> TRUE,
                       field_dictionary |-> p.fields,
                       filter_dictionary |-> p.filters,
                       exclude_dictionary |-> p.exclude],
          outcome |-> [status |-> "returned",
                       result |-> PostProcess(e.hits, e.processed)]]

PerformSearch ==
    /\ pc = "call"
    /\ op = "perform_search"
    /\ pc' = "done"
    /\ LET run == PerformSearchRun(settings, provider, engine)
       IN  /\ calls' = run.calls
           /\ sent' = run.sent
           /\ outcome' = run.outcome
    /\ UNCHANGED inputs

\* course_discovery_search(search_term, size, from_, field_dictionary); the
\* engine's answer is returned as it is
CourseDiscoveryRun(s, p, a, e, c) ==
    IF ~s.info_engine
    THEN [calls   |-> <<"generate_field_filters", "get_search_engine">>,
          sent    |-> NotSent,
          outcome |-> Raised]
    ELSE [calls   |-> <<"generate_field_filters", "get_search_engine", "search">>,
          sent    |-> [called |-> TRUE] @@ DiscoveryQuery(p, a, s, c),
          outcome |-> [status |-> "returned", result |-> [results |-> e.hits]]]

CourseDiscoverySearch ==
    /\ pc = "call"
    /\ op = "course_discovery_search"
    /\ pc' = "done"
    /\ LET run == CourseDiscoveryRun(settings, provider, args, engine, clock)
       IN  /\ calls' = run.calls
           /\ sent' = run.sent
           /\ outcome' = run.outcome
    /\ UNCHANGED inputs

SearchNext == PerformSearch

DiscoveryNext == CourseDiscoverySearch

Init == InitSearch \/ InitDiscovery

Next == PerformSearch \/ CourseDiscoverySearch

SpecSearch == InitSearch /\ [][SearchNext]_vars

SpecDiscovery == InitDiscovery /\ [][DiscoveryNext]_vars

Spec == Init /\ [][Next]_vars

----------------------------------------------------------------------------
(* Properties of perform_search, stated for SpecSearch *)

SearchReturned ==
    pc = "done" /\ op = "perform_search" /\ outcome.status = "returned"

ResultIds == {outcome.result.results[i].id : i \in 1..Len(outcome.result.results)}

\* hits whose payload process_result returned unchanged
Unchanged == {i \in 1..Len(engine.hits) : engine.processed[i] = engine.hits[i].data}

\* hit i of the engine's list is in the returned results with payload d
KeptWith(i, d) ==
    \E k \in 1..Len(outcome.result.results) :
        outcome.result.results[k] = [id |-> i, data |-> d]

\* C1: after perform_search the kept hits plus access_denied_count number the
\* hits the engine returned; the kept hits are exactly the hits process_result
\* did not answer None for, in the engine's order.
C1_CountAndOrder ==
    SearchReturned =>
        LET res == outcome.result
        IN  /\ Len(res.results) + res.access_denied_count = Len(engine.hits)
            /\ ResultIds = {i \in 1..Len(engine.hits) : engine.processed[i] # None}
            /\ \A i, j \in 1..Len(res.results) :
                   i < j => res.results[i].id < res.results[j].id

C1_Witness ==
    /\ SearchReturned
    /\ Len(engine.hits) = 3
    /\ engine.processed[2] = None
    /\ outcome.result.access_denied_count = 1
    /\ Len(outcome.result.results) = 2
    /\ outcome.result.results[2].data = "{}"

\* C6: when the content index resolves to no engine, perform_search raises
\* NoSearchEngineError having invoked only the filter generator and the engine
\* lookup: no search_string, no process_result, nothing passed to an engine and
\* no result.
C6_NoEngineNoCollaborator ==
    (pc = "done" /\ op = "perform_search" /\ ~settings.content_engine) =>
        /\ outcome.status = "NoSearchEngineError"
        /\ \A i \in 1..Len(calls) :
               calls[i] \in {"generate_field_filters", "get_search_engine"}
        /\ ~sent.called
        /\ outcome.result.results = <<>>

C6_Witness ==
    /\ pc = "done"
    /\ op = "perform_search"
    /\ ~settings.content_engine
    /\ Len(engine.hits) = 2
    /\ outcome.status = "NoSearchEngineError"
    /\ calls = <<"generate_field_filters", "get_search_engine">>

\* C7 as stated: every hit whose payload process_result returns unchanged is
\* kept with that payload and is not counted as denied, whatever the payload.
C7_UnchangedKept_AnyPayload ==
    SearchReturned =>
        /\ \A i \in Unchanged : KeptWith(i, engine.hits[i].data)
        /\ outcome.result.access_denied_count + Cardinality(Unchanged) <= Len(engine.hits)

UnchangedNotNone == {i \in Unchanged : engine.hits[i].data # None}

\* C7 amended: every hit whose payload is not None and which process_result
\* returns unchanged is kept with that payload and is not counted as denied;
\* this includes falsy payloads such as the empty dict.
C7_UnchangedKept ==
    SearchReturned =>
        /\ \A i \in UnchangedNotNone : KeptWith(i, engine.hits[i].data)
        /\ outcome.result.access_denied_count + Cardinality(UnchangedNotNone)
               <= Len(engine.hits)

C7_Witness ==
    /\ SearchReturned
    /\ Len(engine.hits) = 2
    /\ engine.hits[1].data = "{}"
    /\ engine.processed[1] = "{}"
    /\ engine.processed[2] = None
    /\ KeptWith(1, "{}")
    /\ outcome.result.access_denied_count = 1

----------------------------------------------------------------------------
(* Properties of course_discovery_search, stated for SpecDiscovery *)

\* the call reached searcher.search
Searched == pc = "done" /\ op = "course_discovery_search" /\ sent.called

\* the caller's field_dictionary has key k
Supplied(k) == args.given /\ k \in DOMAIN args.field_dictionary

HasStatus == Supplied("estatus")

StatusIs(v) == HasStatus /\ args.field_dictionary["estatus"].value = v

\* the one-character-chunk word w is a whitespace-delimited token of the status
StatusHasToken(w) ==
    /\ HasStatus
    /\ LET v == args.field_dictionary["estatus"].value
       IN  \E i \in 1..Len(v) :
               /\ v[i] = w
               /\ (i = 1 \/ v[i - 1] \in Whitespace)
               /\ (i = Len(v) \/ v[i + 1] \in Whitespace)

\* the engine received key k with value val
SentField(k, val) ==
    k \in DOMAIN sent.field_dictionary /\ sent.field_dictionary[k] = val

\* the engine received key k exactly when the caller supplied it, with the
\* caller's value: nothing else wrote k
OnlyFromCaller(k) ==
    IF Supplied(k)
    THEN SentField(k, args.field_dictionary[k])
    ELSE k \notin DOMAIN sent.field_dictionary

today == clock[1]

\* C2: estatus "ongoing invitation_only" gives the engine the ongoing date
\* constraints start=DateRange(None, now), end=DateRange(now, None) together
\* with invitation_only=True.
C2_OngoingAndInvitationOnly ==
    (Searched /\ StatusIs(<<"ongoing", " ", "invitation_only">>)) =>
        /\ SentField("start", DateRange(None, today))
        /\ SentField("end", DateRange(today, None))
        /\ SentField("invitation_only", True)

\* C3: estatus "ongoing" gives the engine start=DateRange(None, now) and
\* end=DateRange(now, None), and an exclude dictionary with invitation_only
\* False, whatever the provider returned and the caller supplied besides.
C3_Ongoing ==
    (Searched /\ StatusIs(Str("ongoing"))) =>
        /\ SentField("start", DateRange(None, today))
        /\ SentField("end", DateRange(today, None))
        /\ "invitation_only" \in DOMAIN sent.exclude_dictionary
        /\ sent.exclude_dictionary["invitation_only"] = False

C3_Witness ==
    /\ Searched
    /\ StatusIs(Str("ongoing"))
    /\ Supplied("start")
    /\ Supplied("end")
    /\ "invitation_only" \in DOMAIN provider.exclude
    /\ provider.exclude["invitation_only"] = True
    /\ SentField("start", DateRange(None, "t1"))

\* C4: the caller's value wins over the seeded one on every key both have, and
\* a status-derived start, end or invitation_only is what the engine receives
\* even when the caller supplied that key.
C4_OverridePrecedence ==
    Searched =>
        /\ \A k \in use_search_fields :
               Supplied(k) => SentField(k, args.field_dictionary[k])
        /\ StatusIs(Str("ongoing")) =>
               /\ SentField("start", DateRange(None, today))
               /\ SentField("end", DateRange(today, None))
        /\ StatusIs(Str("upcoming")) => SentField("start", DateRange(today, None))
        /\ StatusIs(Str("finished")) => SentField("end", DateRange(None, today))
        /\ StatusHasToken("invitation_only") => SentField("invitation_only", True)

C4_Witness ==
    /\ Searched
    /\ "org" \in DOMAIN provider.fields
    /\ Supplied("org")
    /\ Supplied("end")
    /\ Supplied("invitation_only")
    /\ StatusIs(<<"finished", " ", "invitation_only">>)
    /\ SentField("org", Scalar("caller-org"))
    /\ SentField("invitation_only", True)

\* C5 as stated: with SEARCH_SKIP_ENROLLMENT_START_DATE_FILTERING set the engine
\* never receives an enrollment_start key; without it the engine always does.
C5_EnrollmentStartFlag ==
    Searched =>
        IF settings.SEARCH_SKIP_ENROLLMENT_START_DATE_FILTERING
        THEN "enrollment_start" \notin DOMAIN sent.field_dictionary
        ELSE "enrollment_start" \in DOMAIN sent.field_dictionary

\* C5 amended: with SEARCH_SKIP_ENROLLMENT_START_DATE_FILTERING set the function
\* adds no enrollment_start key, so the engine receives one only when the
\* caller's field_dictionary supplied it, with the caller's value; without the
\* setting the engine always receives enrollment_start=DateRange(None, now).
C5_EnrollmentStartAdded ==
    Searched =>
        IF settings.SEARCH_SKIP_ENROLLMENT_START_DATE_FILTERING
        THEN OnlyFromCaller("enrollment_start")
        ELSE SentField("enrollment_start", DateRange(None, clock[2]))

C5_Witness ==
    /\ Searched
    /\ settings.SEARCH_SKIP_ENROLLMENT_START_DATE_FILTERING
    /\ Supplied("enrollment_start")
    /\ StatusIs(Str("ongoing"))
    /\ SentField("enrollment_start", DateRange("t0", "t0"))

\* C8: estatus "upcoming" derives start=DateRange(now, None) and nothing else:
\* end and invitation_only reach the engine only as the caller supplied them.
C8_Upcoming ==
    (Searched /\ StatusIs(Str("upcoming"))) =>
        /\ SentField("start", DateRange(today, None))
        /\ OnlyFromCaller("end")
        /\ OnlyFromCaller("invitation_only")

C8_Witness ==
    /\ Searched
    /\ StatusIs(Str("upcoming"))
    /\ ~Supplied("end")
    /\ Supplied("start")
    /\ SentField("start", DateRange("t1", None))
    /\ "end" \notin DOMAIN sent.field_dictionary

\* C9: estatus "invitation_only" gives the engine invitation_only=True and
\* derives no start and no end: those reach the engine only as the caller
\* supplied them.
C9_InvitationOnly ==
    (Searched /\ StatusIs(Str("invitation_only"))) =>
        /\ SentField("invitation_only", True)
        /\ OnlyFromCaller("start")
        /\ OnlyFromCaller("end")

C9_Witness ==
    /\ Searched
    /\ StatusIs(Str("invitation_only"))
    /\ Supplied("invitation_only")
    /\ ~Supplied("start")
    /\ SentField("invitation_only", True)
    /\ "start" \notin DOMAIN sent.field_dictionary

Unrecognized ==
    /\ HasStatus
    /\ ~StatusIs(Str("ongoing"))
    /\ ~StatusIs(Str("upcoming"))
    /\ ~StatusIs(Str("finished"))
    /\ ~StatusHasToken("invitation_only")

====
